---- MODULE Spec2Model ----
(***************************************************************************)
(* A model of datastore.py (pysak): the envelope codec of DataStore        *)
(* (getobj / setobj), the SqliteTable helper with the DB backend built on  *)
(* it, and the Dir backend over a file system.                             *)
(*                                                                         *)
(* Python values are modelled as follows.                                  *)
(*   - a byte string is a sequence of numbers 0..255;                      *)
(*   - an optional argument is <<>> for None and <<v>> for the value v;   *)
(*   - the outcome of a call is a record [exc, val]: exc = "" when the     *)
(*     call returns val, otherwise the kind of the exception raised.       *)
(***************************************************************************)
EXTENDS Integers, Sequences, FiniteSets, TLC

\* ------------------------------------------------------------------------
\* Python values
\* ------------------------------------------------------------------------
None == <<>>
Some(v) == <<v>>
Val(x) == x[1]

Ret(v) == [exc |-> "", val |-> v]
Raise(e) == [exc |-> e, val |-> <<>>]

\* a test against None only ("assert crypt_pwd != None")
Truthy_notNone(optstr) == optstr /= None

\* truthiness of a str (or of None): "if not buf", "assert crypt_pwd"
Truthy(optstr) == optstr /= None /\ Val(optstr) /= <<>>

RECURSIVE SumBytes(_)
SumBytes(s) == IF s = <<>> THEN 0 ELSE s[1] + SumBytes(Tail(s))

Reverse(s) == [i \in 1..Len(s) |-> s[Len(s) + 1 - i]]

\* bitwise operators on naturals (Python's &, |, ^, <<, >>)
RECURSIVE BitAnd(_, _)
BitAnd(a, b) ==
  IF a = 0 \/ b = 0 THEN 0
  ELSE (a % 2) * (b % 2) + 2 * BitAnd(a \div 2, b \div 2)

RECURSIVE BitOr(_, _)
BitOr(a, b) ==
  IF a = 0 THEN b
  ELSE IF b = 0 THEN a
  ELSE (IF a % 2 = 1 \/ b % 2 = 1 THEN 1 ELSE 0) + 2 * BitOr(a \div 2, b \div 2)

RECURSIVE BitXor(_, _)
BitXor(a, b) ==
  IF a = 0 THEN b
  ELSE IF b = 0 THEN a
  ELSE ((a + b) % 2) + 2 * BitXor(a \div 2, b \div 2)

RECURSIVE Shl(_, _)
Shl(a, n) == IF n = 0 THEN a ELSE Shl(2 * a, n - 1)

RECURSIVE Shr(_, _)
Shr(a, n) == IF n = 0 THEN a ELSE Shr(a \div 2, n - 1)

\* ------------------------------------------------------------------------
\* util.Enum and the three algorithm enumerations
\* ------------------------------------------------------------------------
uncompressed == 0
zlib == 1
bz2 == 2
unencrypted == 0
AES == 1
unprotected == 0
DPAPI == 1

CompAlgo == {uncompressed, zlib, bz2}
CryptAlgo == {unencrypted, AES}
ProtectAlgo == {unprotected, DPAPI}

\* Enum.validate: enum_value in self.__dict__.values()
validate(enum, enum_value) == enum_value \in enum

MinCompLevel == 1
MaxCompLevel == 9
DefaultCompLevel == 5
IVLen == 16

\* ------------------------------------------------------------------------
\* cPickle, protocol 2, on the objects of Objs
\*   None    -> 80 02 'N' '.'
\*   int n   -> 80 02 'K' n '.'           (BININT1, 0 <= n < 256)
\*   str s   -> 80 02 'U' len s 'q' 01 '.' (SHORT_BINSTRING, BINPUT)
\* ------------------------------------------------------------------------
PyNone == [t |-> "none", v |-> <<>>]
PyInt(n) == [t |-> "int", v |-> <<n>>]
PyStr(s) == [t |-> "str", v |-> s]

cPickle_dumps(obj) ==
  <<128, 2>> \o
  (CASE obj.t = "none" -> <<78>>
     [] obj.t = "int"  -> <<75, obj.v[1]>>
     [] obj.t = "str"  -> <<85, Len(obj.v)>> \o obj.v \o <<113, 1>>) \o
  <<46>>

cPickle_loads(buf) ==
  IF Len(buf) < 4 \/ buf[1] /= 128 \/ buf[2] /= 2 \/ buf[Len(buf)] /= 46
    THEN Raise("UnpicklingError")
  ELSE LET body == SubSeq(buf, 3, Len(buf) - 1) IN
    IF body = <<78>> THEN Ret(PyNone)
    ELSE IF Len(body) = 2 /\ body[1] = 75 THEN Ret(PyInt(body[2]))
    ELSE IF Len(body) >= 4 /\ body[1] = 85 /\ Len(body) = body[2] + 4
            /\ body[Len(body) - 1] = 113 /\ body[Len(body)] = 1
      THEN Ret(PyStr(SubSeq(body, 3, Len(body) - 2)))
    ELSE Raise("UnpicklingError")

\* ------------------------------------------------------------------------
\* zlib and bz2: a header that records the level, a reversible body
\* ------------------------------------------------------------------------
ZlibFlg(level) ==
  IF level = 1 THEN 1 ELSE IF level <= 5 THEN 94 ELSE IF level = 6 THEN 156 ELSE 218

zlib_compress(buf, level) ==
  <<120, ZlibFlg(level), Len(buf)>> \o buf \o <<SumBytes(buf) % 256>>

zlib_decompress(buf) ==
  IF Len(buf) < 4 \/ buf[1] /= 120 \/ buf[2] \notin {1, 94, 156, 218}
     \/ Len(buf) /= buf[3] + 4
    THEN Raise("zlib.error")
  ELSE LET body == SubSeq(buf, 4, Len(buf) - 1) IN
    IF SumBytes(body) % 256 /= buf[Len(buf)] THEN Raise("zlib.error")
    ELSE Ret(body)

bz2_compress(buf, level) == <<66, 90, 104, 48 + level>> \o Reverse(buf)

bz2_decompress(buf) ==
  IF Len(buf) < 4 \/ SubSeq(buf, 1, 3) /= <<66, 90, 104>>
     \/ buf[4] \notin 49..57
    THEN Raise("IOError")
  ELSE Ret(Reverse(SubSeq(buf, 5, Len(buf))))

\* ------------------------------------------------------------------------
\* hashlib.sha256 and Crypto.Cipher.AES in CFB mode (8-bit segments):
\* the key stream byte is a function of the key and of the shift register,
\* which starts as the IV and takes in each ciphertext byte.
\* ------------------------------------------------------------------------
sha256_digest(pwd) == (31 * SumBytes(pwd) + 7 * Len(pwd) + 99) % 256

AES_block(key, reg) == (key + 3 * SumBytes(reg) + reg[Len(reg)]) % 256

RECURSIVE CFB_encrypt(_, _, _)
CFB_encrypt(key, reg, plain) ==
  IF plain = <<>> THEN <<>>
  ELSE LET c == BitXor(plain[1], AES_block(key, reg)) IN
    <<c>> \o CFB_encrypt(key, Append(Tail(reg), c), Tail(plain))

RECURSIVE CFB_decrypt(_, _, _)
CFB_decrypt(key, reg, cipher) ==
  IF cipher = <<>> THEN <<>>
  ELSE <<BitXor(cipher[1], AES_block(key, reg))>> \o
       CFB_decrypt(key, Append(Tail(reg), cipher[1]), Tail(cipher))

\* ------------------------------------------------------------------------
\* dpapi.cryptData / dpapi.decryptData: the blob of the OS call when it
\* succeeds (osok), the empty string when it fails.
\* ------------------------------------------------------------------------
extraEntropy == 60

dpapi_cryptData(text, osok) ==
  IF osok THEN <<1, 208>> \o [i \in 1..Len(text) |-> (text[i] + extraEntropy) % 256]
  ELSE <<>>

dpapi_decryptData(cipher_text, osok) ==
  IF osok /\ Len(cipher_text) >= 2 /\ cipher_text[1] = 1 /\ cipher_text[2] = 208
    THEN [i \in 1..(Len(cipher_text) - 2) |->
            (cipher_text[i + 2] + 256 - extraEntropy) % 256]
  ELSE <<>>

\* ------------------------------------------------------------------------
\* DataStore: the default encoding parameters (self._priv)
\* ------------------------------------------------------------------------
DataStore_init(comp_algo, comp_level, crypt_algo, crypt_pwd, protect_algo) ==
  IF ~validate(CompAlgo, comp_algo) THEN Raise("AssertionError")
  ELSE IF ~(comp_level >= MinCompLevel /\ comp_level <= MaxCompLevel)
    THEN Raise("AssertionError")
  ELSE IF ~validate(CryptAlgo, crypt_algo) THEN Raise("AssertionError")
  ELSE IF ~validate(ProtectAlgo, protect_algo) THEN Raise("AssertionError")
  ELSE Ret([comp_algo |-> comp_algo, comp_level |-> comp_level,
            crypt_algo |-> crypt_algo, crypt_pwd |-> crypt_pwd,
            protect_algo |-> protect_algo])

\* DataStore.__init__ with no argument: the defaults of its signature
DefaultPriv == DataStore_init(uncompressed, DefaultCompLevel, unencrypted, None,
                              unprotected).val

\* The effective value of an optional argument: the store default when None
OrDefault(arg, default) == IF arg = None THEN default ELSE Val(arg)

\* the header byte with the encryption code shifted by 3 instead of 2
header_byte_crypt_shift3(comp_algo, crypt_algo, protect_algo) ==
  BitOr(BitOr(Shl(comp_algo, 5), Shl(crypt_algo, 3)), protect_algo)

\* the header byte of setobj, and the three fields getobj reads out of it
header_byte(comp_algo, crypt_algo, protect_algo) ==
  BitOr(BitOr(Shl(comp_algo, 5), Shl(crypt_algo, 2)), protect_algo)

\* the compression field shifted down by 4 instead of 5
header_comp_shift4(header) == Shr(BitAnd(header, 224), 4)

header_comp(header) == Shr(BitAnd(header, 224), 5)
header_crypt(header) == Shr(BitAnd(header, 28), 2)
\* the protection field read with a one-bit mask
header_protect_mask1(header) == BitAnd(header, 1)

header_protect(header) == BitAnd(header, 3)

\* setobj with the protection applied to the whole envelope, header included
setobj_buf_protect_envelope(priv, obj, comp_algo, comp_level, crypt_algo, crypt_pwd, protect_algo, IV, osok) ==
  LET ca == OrDefault(comp_algo, priv.comp_algo)
      cl == OrDefault(comp_level, priv.comp_level)
      ya == OrDefault(crypt_algo, priv.crypt_algo)
      pw == IF crypt_pwd = None THEN priv.crypt_pwd ELSE crypt_pwd
      pa == OrDefault(protect_algo, priv.protect_algo)
  IN
  IF ~validate(CompAlgo, ca) THEN Raise("AssertionError")
  ELSE IF ca /= uncompressed /\ ~(cl >= MinCompLevel /\ cl <= MaxCompLevel)
    THEN Raise("AssertionError")
  ELSE IF ~validate(CryptAlgo, ya) THEN Raise("AssertionError")
  ELSE IF ya /= unencrypted /\ ~Truthy(pw) THEN Raise("AssertionError")
  ELSE IF ~validate(ProtectAlgo, pa) THEN Raise("AssertionError")
  ELSE
    LET pickled == cPickle_dumps(obj)
        compressed == IF ca = zlib THEN zlib_compress(pickled, cl)
                      ELSE IF ca = bz2 THEN bz2_compress(pickled, cl)
                      ELSE pickled
        encrypted == IF ya = AES
                       THEN IV \o CFB_encrypt(sha256_digest(Val(pw)), IV, compressed)
                     ELSE compressed
        envelope == <<0, header_byte(ca, ya, pa)>> \o encrypted
    IN Ret(IF pa = DPAPI THEN dpapi_cryptData(envelope, osok) ELSE envelope)

\* setobj with the protection applied before the encryption
setobj_buf_protect_first(priv, obj, comp_algo, comp_level, crypt_algo, crypt_pwd, protect_algo, IV, osok) ==
  LET ca == OrDefault(comp_algo, priv.comp_algo)
      cl == OrDefault(comp_level, priv.comp_level)
      ya == OrDefault(crypt_algo, priv.crypt_algo)
      pw == IF crypt_pwd = None THEN priv.crypt_pwd ELSE crypt_pwd
      pa == OrDefault(protect_algo, priv.protect_algo)
  IN
  IF ~validate(CompAlgo, ca) THEN Raise("AssertionError")
  ELSE IF ca /= uncompressed /\ ~(cl >= MinCompLevel /\ cl <= MaxCompLevel)
    THEN Raise("AssertionError")
  ELSE IF ~validate(CryptAlgo, ya) THEN Raise("AssertionError")
  ELSE IF ya /= unencrypted /\ ~Truthy(pw) THEN Raise("AssertionError")
  ELSE IF ~validate(ProtectAlgo, pa) THEN Raise("AssertionError")
  ELSE
    LET pickled == cPickle_dumps(obj)
        compressed == IF ca = zlib THEN zlib_compress(pickled, cl)
                      ELSE IF ca = bz2 THEN bz2_compress(pickled, cl)
                      ELSE pickled
        protected == IF pa = DPAPI THEN dpapi_cryptData(compressed, osok)
                     ELSE compressed
        encrypted == IF ya = AES
                       THEN IV \o CFB_encrypt(sha256_digest(Val(pw)), IV, protected)
                     ELSE protected
    IN Ret(<<0, header_byte(ca, ya, pa)>> \o encrypted)

\* setobj up to the call of setdata: the outcome is the buffer handed to
\* setdata, or the exception raised before.  IV is os.urandom(16), osok the
\* success of the OS call behind dpapi.cryptData.
setobj_buf(priv, obj, comp_algo, comp_level, crypt_algo, crypt_pwd, protect_algo, IV, osok) ==
  LET ca == OrDefault(comp_algo, priv.comp_algo)
      cl == OrDefault(comp_level, priv.comp_level)
      ya == OrDefault(crypt_algo, priv.crypt_algo)
      pw == IF crypt_pwd = None THEN priv.crypt_pwd ELSE crypt_pwd
      pa == OrDefault(protect_algo, priv.protect_algo)
  IN
  IF ~validate(CompAlgo, ca) THEN Raise("AssertionError")
  ELSE IF ca /= uncompressed /\ ~(cl >= MinCompLevel /\ cl <= MaxCompLevel)
    THEN Raise("AssertionError")
  ELSE IF ~validate(CryptAlgo, ya) THEN Raise("AssertionError")
  ELSE IF ya /= unencrypted /\ ~Truthy(pw) THEN Raise("AssertionError")
  ELSE IF ~validate(ProtectAlgo, pa) THEN Raise("AssertionError")
  ELSE
    LET pickled == cPickle_dumps(obj)
        compressed == IF ca = zlib THEN zlib_compress(pickled, cl)
                      ELSE IF ca = bz2 THEN bz2_compress(pickled, cl)
                      ELSE pickled
        encrypted == IF ya = AES
                       THEN IV \o CFB_encrypt(sha256_digest(Val(pw)), IV, compressed)
                     ELSE compressed
        protected == IF pa = DPAPI THEN dpapi_cryptData(encrypted, osok)
                     ELSE encrypted
        proto_ver == 0
    IN Ret(<<proto_ver, header_byte(ca, ya, pa)>> \o protected)

\* the outcome of getobj together with the calls it made on the buffer, in
\* order
Ran(out, calls) == [out |-> out, calls |-> calls]

\* a getobj that accepts every protocol version
proto_ver_any(proto_ver) == TRUE

\* assert proto_ver == 0
proto_ver_supported(proto_ver) == proto_ver = 0

\* getobj after self.getdata(key) has returned or raised `got`.  A tuple
\* (a, b) is <<a, b>>; getobj returns (obj, upd_time).  osok is the success
\* of the OS call behind dpapi.decryptData.
getobj_run(priv, got, crypt_pwd, osok) ==
  IF got.exc /= "" THEN Ran(got, <<>>)
  ELSE IF Len(got.val) /= 2 THEN Ran(Raise("TypeError"), <<>>)
  ELSE LET buf0 == got.val[1]
           upd_time == got.val[2] IN
  IF ~Truthy(buf0) THEN Ran(Ret(<<PyNone, None>>), <<>>)
  ELSE LET whole == Val(buf0)
           c1 == <<"ord(buf[0])">> IN
  IF ~proto_ver_supported(whole[1]) THEN Ran(Raise("AssertionError"), c1)
  ELSE LET c2 == Append(c1, "ord(buf[1])") IN
  IF Len(whole) < 2 THEN Ran(Raise("IndexError"), c2)
  ELSE LET header == whole[2]
           comp_algo == header_comp(header)
           crypt_algo == header_crypt(header)
           protect_algo == header_protect(header)
           buf1 == SubSeq(whole, 3, Len(whole)) IN
  IF ~validate(CompAlgo, comp_algo) THEN Ran(Raise("AssertionError"), c2)
  ELSE IF ~validate(CryptAlgo, crypt_algo) THEN Ran(Raise("AssertionError"), c2)
  ELSE IF ~validate(ProtectAlgo, protect_algo)
    THEN Ran(Raise("AssertionError"), c2)
  ELSE LET buf2 == IF protect_algo = DPAPI THEN dpapi_decryptData(buf1, osok)
                   ELSE buf1
           c3 == IF protect_algo = DPAPI THEN Append(c2, "dpapi.decryptData")
                 ELSE c2
           pw == IF crypt_pwd = None THEN priv.crypt_pwd ELSE crypt_pwd IN
  IF crypt_algo = AES /\ ~Truthy(pw) THEN Ran(Raise("AssertionError"), c3)
  ELSE IF crypt_algo = AES /\ Len(buf2) < IVLen
    THEN Ran(Raise("ValueError"), Append(c3, "AES.new"))
  ELSE LET buf3 == IF crypt_algo = AES
                     THEN CFB_decrypt(sha256_digest(Val(pw)),
                                      SubSeq(buf2, 1, IVLen),
                                      SubSeq(buf2, IVLen + 1, Len(buf2)))
                   ELSE buf2
           c4 == IF crypt_algo = AES THEN c3 \o <<"AES.new", "decrypt">> ELSE c3
           plain == IF comp_algo = zlib THEN zlib_decompress(buf3)
                    ELSE IF comp_algo = bz2 THEN bz2_decompress(buf3)
                    ELSE Ret(buf3)
           c5 == IF comp_algo = zlib THEN Append(c4, "zlib.decompress")
                 ELSE IF comp_algo = bz2 THEN Append(c4, "bz2.decompress")
                 ELSE c4 IN
  IF plain.exc /= "" THEN Ran(plain, c5)
  ELSE LET loaded == cPickle_loads(plain.val)
           c6 == Append(c5, "cPickle.loads") IN
  IF loaded.exc /= "" THEN Ran(loaded, c6)
  ELSE Ran(Ret(<<loaded.val, upd_time>>), c6)

\* what getobj returns or raises
getobj_of(priv, got, crypt_pwd, osok) == getobj_run(priv, got, crypt_pwd, osok).out

\* ------------------------------------------------------------------------
\* State
\* ------------------------------------------------------------------------
VARIABLES
  priv,     \* self._priv of the DataStore: the default encoding parameters
  enc,      \* the last setobj of the codec run: arguments and buffer for setdata
  dec,      \* the last getobj of the codec run: arguments and outcome
  sto,      \* the backend class of the run: "Dir" or "DB"; "table" in the
            \* table run, "none" in the codec runs
  procs,    \* the setdata calls in progress of the concurrent writers
  dirs,     \* Dir: the directories under (and including) the store root
  files,    \* Dir: the regular files under the root, path -> [data, mtime]
  dirOpen,  \* Dir.__init__ has run on the root
  dbConn,   \* DB: SqliteTable.connect has run (tbl_DB_table exists)
  dbRows,   \* DB: the rows of tbl_DB_table, in rowid order
  now,      \* the clock read by time.time() and by the file system
  last      \* the last call on a backend: what was called and its outcome

vars == <<priv, enc, dec, sto, procs, dirs, files, dirOpen, dbConn, dbRows, now, last>>
codecVars == <<priv, enc, dec>>
storeVars == <<sto, procs, dirs, files, dirOpen, dbConn, dbRows, now, last>>

\* ------------------------------------------------------------------------
\* Inputs
\* ------------------------------------------------------------------------
Objs == {PyNone, PyInt(7), PyStr(<<>>), PyStr(<<97, 98>>)}
Pwds == {<<>>, <<112>>, <<113, 119>>}
OptPwds == {None} \cup {Some(p) : p \in Pwds}
IVs == {[i \in 1..IVLen |-> 0], [i \in 1..IVLen |-> (37 * i) % 256]}
OptCompAlgos == {None} \cup {Some(c) : c \in CompAlgo}
\* comp_level: absent, every level of 1..9, and one level off each end
OptCompLevels ==
  {None} \cup {Some(l) : l \in (MinCompLevel - 1)..(MaxCompLevel + 1)}
OptCryptAlgos == {None} \cup {Some(c) : c \in CryptAlgo}
OptProtectAlgos == {None} \cup {Some(c) : c \in ProtectAlgo}

\* the stores constructed: DataStore(), two with every default changed, and
\* one that encrypts with the empty string for default password
Privs ==
  { DefaultPriv,
    DataStore_init(uncompressed, DefaultCompLevel, AES, Some(<<>>), unprotected).val,
    DataStore_init(zlib, 3, AES, Some(<<112>>), unprotected).val,
    DataStore_init(bz2, DefaultCompLevel, AES, Some(<<113, 119>>), DPAPI).val }

NoEnc == [called |-> FALSE]
NoDec == [called |-> FALSE]
Call(op, key, data, obj, prefix, out) ==
  [op |-> op, key |-> key, data |-> data, obj |-> obj, prefix |-> prefix,
   out |-> out]
NoCall == Call("none", <<>>, <<>>, PyNone, None, Ret(None))

StoreIdle ==
  /\ sto = "none"
  /\ dirs = {} /\ files = {} /\ dirOpen = FALSE
  /\ dbConn = FALSE /\ dbRows = <<>>
  /\ now = 0 /\ last = NoCall /\ procs = <<>>

\* ------------------------------------------------------------------------
\* The codec run: setobj on a store whose setdata keeps the buffer, then
\* getobj on a store whose getdata returns that buffer.
\* ------------------------------------------------------------------------
CodecInit ==
  /\ priv \in Privs
  /\ enc = NoEnc
  /\ dec = NoDec
  /\ StoreIdle

CodecSetobj ==
  /\ ~enc.called
  /\ \E obj \in Objs, comp_algo \in OptCompAlgos, comp_level \in OptCompLevels,
     crypt_algo \in OptCryptAlgos, crypt_pwd \in OptPwds,
     protect_algo \in OptProtectAlgos :
    \E IV \in (IF OrDefault(crypt_algo, priv.crypt_algo) = AES
                 THEN IVs ELSE {[i \in 1..IVLen |-> 0]}),
       osok \in (IF OrDefault(protect_algo, priv.protect_algo) = DPAPI
                   THEN BOOLEAN ELSE {TRUE}) :
      enc' = [called |-> TRUE, obj |-> obj, comp_algo |-> comp_algo,
                 comp_level |-> comp_level, crypt_algo |-> crypt_algo,
                 crypt_pwd |-> crypt_pwd, protect_algo |-> protect_algo,
                 IV |-> IV, osok |-> osok,
                 out |-> setobj_buf(priv, obj, comp_algo, comp_level, crypt_algo,
                                    crypt_pwd, protect_algo, IV, osok)]
  /\ UNCHANGED <<priv, dec, storeVars>>

CodecGetobj ==
  /\ enc.called
  /\ ~dec.called
  /\ enc.out.exc = ""
  /\ \E crypt_pwd \in OptPwds :
       \E osok \in (IF Len(enc.out.val) >= 2 /\ header_protect(enc.out.val[2]) = DPAPI
                      THEN BOOLEAN ELSE {TRUE}) :
         LET ran == getobj_run(priv, Ret(<<Some(enc.out.val), Some(now)>>),
                               crypt_pwd, osok) IN
         dec' = [called |-> TRUE, crypt_pwd |-> crypt_pwd, osok |-> osok,
                 out |-> ran.out, calls |-> ran.calls]
  /\ UNCHANGED <<priv, enc, storeVars>>

CodecNext == CodecSetobj \/ CodecGetobj

SpecCodec == CodecInit /\ [][CodecNext]_vars

\* ------------------------------------------------------------------------
\* Claims on the codec
\* ------------------------------------------------------------------------
\* the password setobj encrypted with, and the one getobj decrypts with
EncPwd == IF enc.crypt_pwd = None THEN priv.crypt_pwd ELSE enc.crypt_pwd
DecPwd == IF dec.crypt_pwd = None THEN priv.crypt_pwd ELSE dec.crypt_pwd
EncCrypt == OrDefault(enc.crypt_algo, priv.crypt_algo)
EncProtect == OrDefault(enc.protect_algo, priv.protect_algo)
EncComp == OrDefault(enc.comp_algo, priv.comp_algo)

C11_HeaderDeterminism ==
  (enc.called /\ enc.out.exc = "")
  => /\ Len(enc.out.val) >= 2
     /\ enc.out.val[1] = 0
     /\ enc.out.val[2] = 32 * EncComp + 4 * EncCrypt + EncProtect

\* C11 witness: a call overriding all three defaults of DataStore() with
\* bz2, AES and DPAPI produced a buffer starting with 0, 69
C11_Witness ==
  /\ enc.called /\ enc.out.exc = ""
  /\ priv = DefaultPriv
  /\ enc.comp_algo = Some(bz2) /\ enc.crypt_algo = Some(AES)
  /\ enc.protect_algo = Some(DPAPI)
  /\ SubSeq(enc.out.val, 1, 2) = <<0, 69>>

\* the bytes after the two header bytes
Payload(buf) == SubSeq(buf, 3, Len(buf))

\* C12 as stated: with DPAPI the buffer handed to setdata is the protect
\* transform of a sequence that starts with the version and flags bytes, and
\* unprotect is the first thing getobj does on the buffer.
C12_ProtectWrapsEnvelope ==
  /\ (enc.called /\ enc.out.exc = "" /\ EncProtect = DPAPI /\ enc.osok)
     => LET e == dpapi_decryptData(enc.out.val, TRUE) IN
        /\ Len(e) >= 2
        /\ e[1] = 0
        /\ e[2] = 32 * EncComp + 4 * EncCrypt + EncProtect
  /\ (dec.called /\ EncProtect = DPAPI)
     => Len(dec.calls) >= 1 /\ dec.calls[1] = "dpapi.decryptData"

\* C12 amended: with DPAPI the protect transform is the last transform of
\* the payload (what follows the two header bytes, which stay in clear):
\* unprotecting the payload gives the payload the same call produces without
\* protection; and getobj reads version and flags, then unprotects before any
\* other call on the payload.
C12_ProtectWrapsPayload ==
  /\ (enc.called /\ enc.out.exc = "" /\ EncProtect = DPAPI /\ enc.osok)
     => /\ SubSeq(enc.out.val, 1, 2) = <<0, 32 * EncComp + 4 * EncCrypt + 1>>
        /\ dpapi_decryptData(Payload(enc.out.val), TRUE)
           = Payload(setobj_buf(priv, enc.obj, enc.comp_algo, enc.comp_level,
                                enc.crypt_algo, enc.crypt_pwd, Some(unprotected),
                                enc.IV, TRUE).val)
  /\ (dec.called /\ EncProtect = DPAPI)
     => /\ Len(dec.calls) >= 3
        /\ SubSeq(dec.calls, 1, 3)
           = <<"ord(buf[0])", "ord(buf[1])", "dpapi.decryptData">>

\* C12 witness: an AES-encrypted, DPAPI-protected buffer was decoded
C12_Witness ==
  /\ dec.called /\ EncProtect = DPAPI /\ EncCrypt = AES /\ enc.osok /\ dec.osok
  /\ dec.out = Ret(<<enc.obj, Some(now)>>)
  /\ dec.calls = <<"ord(buf[0])", "ord(buf[1])", "dpapi.decryptData", "AES.new",
                   "decrypt", "cPickle.loads">>

\* ------------------------------------------------------------------------
\* The decode run: getobj on a store whose getdata returns a stored buffer
\* that need not come from setobj.
\* ------------------------------------------------------------------------
\* payloads: a pickle, its zlib, DPAPI and AES (password "p") forms, nothing,
\* and one stray byte
Tails ==
  LET pickled == cPickle_dumps(PyInt(7))
      IV == [i \in 1..IVLen |-> 0] IN
  { pickled, zlib_compress(pickled, DefaultCompLevel),
    dpapi_cryptData(pickled, TRUE),
    IV \o CFB_encrypt(sha256_digest(<<112>>), IV, pickled),
    <<>>, <<255>> }

\* the flags of the envelopes of Tails
TailFlags == {0, 32, 1, 4}

\* every version byte alone and before the flags of TailFlags; every flags
\* byte after version 0
StoredBufs ==
  {<<v>> : v \in 0..255}
  \cup {<<v, f>> \o t : v \in 1..255, f \in TailFlags, t \in Tails}
  \cup {<<0, f>> \o t : f \in 0..255, t \in Tails}

DecodeInit ==
  /\ priv \in Privs
  /\ enc = NoEnc
  /\ dec = NoDec
  /\ StoreIdle

DecodeGetobj ==
  /\ ~dec.called
  /\ \E buf \in StoredBufs, crypt_pwd \in OptPwds :
       \E osok \in (IF Len(buf) >= 2 /\ buf[2] % 4 = DPAPI
                      THEN BOOLEAN ELSE {TRUE}) :
         LET ran == getobj_run(priv, Ret(<<Some(buf), Some(now)>>),
                               crypt_pwd, osok) IN
         dec' = [called |-> TRUE, buf |-> buf, crypt_pwd |-> crypt_pwd,
                 osok |-> osok, out |-> ran.out, calls |-> ran.calls]
  /\ UNCHANGED <<priv, enc, storeVars>>

SpecDecode == DecodeInit /\ [][DecodeGetobj]_vars

\* the calls of getobj that touch the payload
PayloadCalls ==
  {"dpapi.decryptData", "AES.new", "decrypt", "zlib.decompress",
   "bz2.decompress", "cPickle.loads"}

\* C13: unknown protocol version.  getobj on a stored, non-empty buffer whose
\* first byte is not 0 raises, whatever the bytes after it.
C13_UnknownVersionFails ==
  (dec.called /\ dec.buf[1] /= 0) => dec.out.exc /= ""

\* C13 witness: version 1 before flags and payload that decode under version 0
C13_Witness ==
  /\ dec.called
  /\ dec.buf = <<1, 0>> \o cPickle_dumps(PyInt(7))
  /\ dec.out = Raise("AssertionError")

\* C14: flags are validated before the payload is touched.  When a code of
\* the flags byte is out of range (compression not in 0..2, encryption not in
\* 0..1, protection not in 0..1), getobj raises and has made none of the
\* unprotect, decrypt, decompress or deserialize calls.
C14_FlagsValidatedFirst ==
  (/\ dec.called /\ Len(dec.buf) >= 2
   /\ LET f == dec.buf[2] IN
      \/ f \div 32 \notin {0, 1, 2}
      \/ (f \div 4) % 8 \notin {0, 1}
      \/ f % 4 \notin {0, 1})
  => /\ dec.out.exc /= ""
     /\ \A i \in 1..Len(dec.calls) : dec.calls[i] \notin PayloadCalls

\* C14 witness: protection code 2 before a payload that is a plain pickle
C14_Witness ==
  /\ dec.called
  /\ dec.buf = <<0, 2>> \o cPickle_dumps(PyInt(7))
  /\ dec.out = Raise("AssertionError")
  /\ dec.calls = <<"ord(buf[0])", "ord(buf[1])">>

\* ------------------------------------------------------------------------
\* Claims on the arguments of setobj and getobj (codec run)
\* ------------------------------------------------------------------------
\* a password that is None or the empty string
NoPassword(optpwd) == optpwd = None \/ Val(optpwd) = <<>>

\* C15: missing credential.  With AES in effect and neither the per-call
\* password nor the default password non-empty, setobj raises before it calls
\* setdata; and getobj on a buffer whose flags say AES, called with no
\* non-empty password either, raises.
C15_MissingCredential ==
  /\ (/\ enc.called /\ EncCrypt = AES
      /\ NoPassword(enc.crypt_pwd) /\ NoPassword(priv.crypt_pwd))
     => enc.out.exc /= ""
  /\ (/\ dec.called /\ EncCrypt = AES
      /\ NoPassword(dec.crypt_pwd) /\ NoPassword(priv.crypt_pwd))
     => dec.out.exc /= ""

\* C15 witness: setobj(crypt_algo=AES, crypt_pwd='') on DataStore() raised
C15_Witness ==
  /\ enc.called /\ priv = DefaultPriv
  /\ enc.crypt_algo = Some(AES) /\ enc.crypt_pwd = Some(<<>>)
  /\ enc.out = Raise("AssertionError")

\* C16: the compression level is validated regardless of the algorithm.  A
\* setobj with a comp_level outside 1..9 raises (and so writes nothing).
C16_LevelAlwaysValidated ==
  (/\ enc.called /\ enc.comp_level /= None
   /\ Val(enc.comp_level) \notin 1..9)
  => enc.out.exc /= ""

\* C23: flags packing is a bijection on the valid codes.  The header byte
\* setobj writes for (comp, crypt, protect) lies in 0..255, the three fields
\* getobj extracts from it are comp, crypt and protect, and no other valid
\* triple packs to the same byte.
C23_FlagsBijection ==
  (enc.called /\ enc.out.exc = "")
  => LET h == enc.out.val[2] IN
     /\ h \in 0..255
     /\ header_comp(h) = EncComp
     /\ header_crypt(h) = EncCrypt
     /\ header_protect(h) = EncProtect
     /\ \A c \in CompAlgo, y \in CryptAlgo, p \in ProtectAlgo :
          header_byte(c, y, p) = h => <<c, y, p>> = <<EncComp, EncCrypt, EncProtect>>

\* C23 witness: the triple (bz2, AES, DPAPI) was packed to 69
C23_Witness ==
  /\ enc.called /\ enc.out.exc = ""
  /\ <<EncComp, EncCrypt, EncProtect>> = <<bz2, AES, DPAPI>>
  /\ enc.out.val[2] = 69
  /\ <<header_comp(69), header_crypt(69), header_protect(69)>> = <<2, 1, 1>>

\* ------------------------------------------------------------------------
\* Keys and paths.  A key is a sequence of characters; a path under the
\* store root is the sequence of its names (the root is <<>>).
\* ------------------------------------------------------------------------
RECURSIVE split(_, _)
split(str, sep) ==
  IF \A i \in 1..Len(str) : str[i] /= sep THEN <<str>>
  ELSE LET i == CHOOSE i \in 1..Len(str) :
                  str[i] = sep /\ \A j \in 1..(i - 1) : str[j] /= sep
       IN <<SubSeq(str, 1, i - 1)>> \o split(SubSeq(str, i + 1, Len(str)), sep)

startswith(str, prefix) ==
  Len(prefix) <= Len(str) /\ SubSeq(str, 1, Len(prefix)) = prefix

RECURSIVE join(_, _)
join(sep, names) ==
  IF names = <<>> THEN <<>>
  ELSE IF Len(names) = 1 THEN names[1]
  ELSE names[1] \o <<sep>> \o join(sep, Tail(names))

id_key == <<"i", "d">>

\* os.path.join(path, name) for a name without separator: an empty name only
\* adds a trailing separator and names the same directory
os_path_join(path, name) == IF name = <<>> THEN path ELSE Append(path, name)

dirname(path) == SubSeq(path, 1, Len(path) - 1)

\* ------------------------------------------------------------------------
\* The file system under the store root: fs = [dirs, files]
\* ------------------------------------------------------------------------
isdir(fs, path) == \E d \in fs.dirs : d.path = path
isfile(fs, path) == \E f \in fs.files : f.path = path
TheFile(fs, path) == CHOOSE f \in fs.files : f.path = path
TheDir(fs, path) == CHOOSE d \in fs.dirs : d.path = path

\* a new entry in a directory sets the directory's modification time
Touched(dset, path, t) ==
  {IF d.path = path THEN [d EXCEPT !.mtime = t] ELSE d : d \in dset}

\* os.mkdir(path)
os_mkdir(fs, path, t) ==
  IF isdir(fs, path) \/ isfile(fs, path) \/ (path /= <<>> /\ ~isdir(fs, dirname(path)))
    THEN [exc |-> "OSError", fs |-> fs]
  ELSE [exc |-> "",
        fs |-> [fs EXCEPT !.dirs = Touched(fs.dirs, dirname(path), t)
                                     \cup {[path |-> path, mtime |-> t]}]]

\* with open(path, 'wb') as f: f.write(data)
os_write(fs, path, data, t) ==
  IF isdir(fs, path) \/ ~isdir(fs, dirname(path))
    THEN [exc |-> "IOError", fs |-> fs]
  ELSE IF isfile(fs, path)
    THEN [exc |-> "",
          fs |-> [fs EXCEPT !.files = (fs.files \ {TheFile(fs, path)})
                       \cup {[path |-> path, data |-> data, mtime |-> t]}]]
  ELSE [exc |-> "",
        fs |-> [dirs |-> Touched(fs.dirs, dirname(path), t),
                files |-> fs.files \cup {[path |-> path, data |-> data, mtime |-> t]}]]

\* os.path.join(self._path, key) for a whole key: a key that starts with the
\* separator is an absolute path, outside the store root
KeyPath(key) ==
  [outside |-> key /= <<>> /\ key[1] = "/",
   path |-> SelectSeq(split(key, "/"), LAMBDA name : name /= <<>>),
   asdir |-> key /= <<>> /\ key[Len(key)] = "/"]

\* os.path.getmtime(os.path.join(self._path, key)); nothing exists at an
\* absolute path outside the root
os_getmtime(fs, key) ==
  LET kp == KeyPath(key) IN
  IF kp.outside THEN Raise("OSError")
  ELSE IF isdir(fs, kp.path) THEN Ret(Some(TheDir(fs, kp.path).mtime))
  ELSE IF isfile(fs, kp.path) /\ ~kp.asdir THEN Ret(Some(TheFile(fs, kp.path).mtime))
  ELSE Raise("OSError")

\* ------------------------------------------------------------------------
\* The Dir backend.  Each operation yields its outcome and the file system
\* it leaves: [out, fs].
\* ------------------------------------------------------------------------
ReservedKey == "Exception: \"id\" is a reserved key"
InvalidKey == "Exception: key invalid: empty or None"

\* Dir.__init__: the root directory and the id file, each made if missing
Dir_init(fs, uuid, t) ==
  LET fs1 == IF ~isdir(fs, <<>>) THEN os_mkdir(fs, <<>>, t).fs ELSE fs
      id_path == os_path_join(<<>>, id_key)
  IN IF ~isfile(fs1, id_path) THEN os_write(fs1, id_path, uuid, t).fs ELSE fs1

\* Dir.getid: unicode(f.read()) of the id file
Dir_getid(fs) ==
  LET id_path == os_path_join(<<>>, id_key) IN
  IF ~isfile(fs, id_path) THEN Raise("IOError")
  ELSE LET text == TheFile(fs, id_path).data IN
    IF \E i \in 1..Len(text) : text[i] >= 128 THEN Raise("UnicodeDecodeError")
    ELSE Ret(text)

\* Dir.listkeys: the dict is a set of [key, time], one per key
Dir_listkeys(fs, prefix) ==
  LET walked == {[key |-> join("/", f.path), time |-> f.mtime] : f \in fs.files}
      keys == {e \in walked : ~(Truthy(prefix) /\ ~startswith(e.key, Val(prefix)))}
  IN Ret({e \in keys : e.key /= id_key})

Dir_getupdtime(fs, key) ==
  IF key = id_key THEN Raise(ReservedKey)
  ELSE os_getmtime(fs, key)

Dir_getdata(fs, key) ==
  IF key = id_key THEN Raise(ReservedKey)
  ELSE LET keys == Dir_listkeys(fs, None).val IN
    IF \E e \in keys : e.key = key
      THEN LET upd == Dir_getupdtime(fs, key) IN
        IF upd.exc /= "" THEN upd
        ELSE Ret(<<Some(TheFile(fs, KeyPath(key).path).data), upd.val>>)
    ELSE Ret(None)

\* the loop of Dir.setdata that makes the directories of the key
RECURSIVE MakeDirs(_, _, _, _)
MakeDirs(fs, data_path, tokens, t) ==
  IF tokens = <<>> THEN [exc |-> "", path |-> data_path, fs |-> fs]
  ELSE LET next_path == os_path_join(data_path, tokens[1]) IN
    IF isdir(fs, next_path) THEN MakeDirs(fs, next_path, Tail(tokens), t)
    ELSE LET made == os_mkdir(fs, next_path, t) IN
      IF made.exc /= "" THEN [exc |-> made.exc, path |-> next_path, fs |-> fs]
      ELSE MakeDirs(made.fs, next_path, Tail(tokens), t)

\* Dir.setdata without the test of the reserved key
Dir_setdata_unreserved(fs, key, data, t) ==
  IF key = <<>> THEN [out |-> Raise(InvalidKey), fs |-> fs]
  ELSE LET stripped == IF key[1] = "/" THEN Tail(key) ELSE key
           tokens == split(stripped, "/")
           file_part == tokens[Len(tokens)]
           made == MakeDirs(fs, <<>>, SubSeq(tokens, 1, Len(tokens) - 1), t)
       IN
    IF made.exc /= "" THEN [out |-> Raise(made.exc), fs |-> made.fs]
    ELSE LET data_path == os_path_join(made.path, file_part)
             written == os_write(made.fs, data_path, data, t) IN
      IF written.exc /= "" THEN [out |-> Raise(written.exc), fs |-> written.fs]
      ELSE [out |-> Ret(Some(TheFile(written.fs, data_path).mtime)),
            fs |-> written.fs]

\* Dir.setdata without the test of the empty key: key[0] raises on ''
Dir_setdata_noemptytest(fs, key, data, t) ==
  IF key = id_key THEN [out |-> Raise(ReservedKey), fs |-> fs]
  ELSE IF key = <<>> THEN [out |-> Raise("IndexError"), fs |-> fs]
  ELSE LET stripped == IF key[1] = "/" THEN Tail(key) ELSE key
           tokens == split(stripped, "/")
           file_part == tokens[Len(tokens)]
           made == MakeDirs(fs, <<>>, SubSeq(tokens, 1, Len(tokens) - 1), t)
       IN
    IF made.exc /= "" THEN [out |-> Raise(made.exc), fs |-> made.fs]
    ELSE LET data_path == os_path_join(made.path, file_part)
             written == os_write(made.fs, data_path, data, t) IN
      IF written.exc /= "" THEN [out |-> Raise(written.exc), fs |-> written.fs]
      ELSE [out |-> Ret(Some(TheFile(written.fs, data_path).mtime)),
            fs |-> written.fs]

\* Dir.setdata with the file written in the root, whatever its directories
Dir_setdata_flat(fs, key, data, t) ==
  IF key = id_key THEN [out |-> Raise(ReservedKey), fs |-> fs]
  ELSE IF key = <<>> THEN [out |-> Raise(InvalidKey), fs |-> fs]
  ELSE LET stripped == IF key[1] = "/" THEN Tail(key) ELSE key
           tokens == split(stripped, "/")
           file_part == tokens[Len(tokens)]
           made == MakeDirs(fs, <<>>, SubSeq(tokens, 1, Len(tokens) - 1), t)
       IN
    IF made.exc /= "" THEN [out |-> Raise(made.exc), fs |-> made.fs]
    ELSE LET data_path == os_path_join(<<>>, file_part)
             written == os_write(made.fs, data_path, data, t) IN
      IF written.exc /= "" THEN [out |-> Raise(written.exc), fs |-> written.fs]
      ELSE [out |-> Ret(Some(TheFile(written.fs, data_path).mtime)),
            fs |-> written.fs]

Dir_setdata(fs, key, data, t) ==
  IF key = id_key THEN [out |-> Raise(ReservedKey), fs |-> fs]
  ELSE IF key = <<>> THEN [out |-> Raise(InvalidKey), fs |-> fs]
  ELSE LET stripped == IF key[1] = "/" THEN Tail(key) ELSE key
           tokens == split(stripped, "/")
           file_part == tokens[Len(tokens)]
           made == MakeDirs(fs, <<>>, SubSeq(tokens, 1, Len(tokens) - 1), t)
       IN
    IF made.exc /= "" THEN [out |-> Raise(made.exc), fs |-> made.fs]
    ELSE LET data_path == os_path_join(made.path, file_part)
             written == os_write(made.fs, data_path, data, t) IN
      IF written.exc /= "" THEN [out |-> Raise(written.exc), fs |-> written.fs]
      ELSE [out |-> Ret(Some(TheFile(written.fs, data_path).mtime)),
            fs |-> written.fs]

\* DataStore.getobj and DataStore.setobj on a Dir (Dir.__init__ passes no
\* encoding parameter to DataStore.__init__)
Dir_getobj(fs, key, crypt_pwd, osok) ==
  getobj_of(DefaultPriv, Dir_getdata(fs, key), crypt_pwd, osok)

Dir_setobj(fs, key, obj, comp_algo, comp_level, crypt_algo, crypt_pwd, protect_algo, IV, osok, t) ==
  LET buf == setobj_buf(DefaultPriv, obj, comp_algo, comp_level, crypt_algo,
                        crypt_pwd, protect_algo, IV, osok) IN
  IF buf.exc /= "" THEN [out |-> buf, fs |-> fs]
  ELSE Dir_setdata(fs, key, buf.val, t)

\* ------------------------------------------------------------------------
\* SqliteTable.  A table class is [colnames, notnull, unique]; the rows of
\* its table are a sequence of records over colnames, in rowid order; the
\* keyword arguments of a call are a record, <<>> when there are none.
\* ------------------------------------------------------------------------
DB_table == [colnames |-> {"id", "key", "value", "update_time"},
             notnull |-> {"key", "value", "update_time"},
             unique |-> {"key"}]

Matches(row, kwargs) == \A c \in DOMAIN kwargs : row[c] = kwargs[c]

\* a row that equals one of the filter values
MatchesAny(row, kwargs) ==
  DOMAIN kwargs = {} \/ \E c \in DOMAIN kwargs : row[c] = kwargs[c]

\* select with the filters joined by OR
SqliteTable_select_or(cls, rows, args, kwargs) ==
  IF Len(args) /= 1 THEN Raise("TypeError")
  ELSE IF ~(DOMAIN kwargs \subseteq cls.colnames) THEN Raise("AssertionError")
  ELSE LET cols == IF args[1] = {} THEN cls.colnames ELSE args[1]
           hits == SelectSeq(rows, LAMBDA row : MatchesAny(row, kwargs))
       IN Ret([i \in 1..Len(hits) |-> [c \in cols |-> hits[i][c]]])

\* select(cls, conn, cols, **kwargs); args are the positional arguments that
\* the call passes after conn.  The cursor is the sequence of selected rows.
SqliteTable_select(cls, rows, args, kwargs) ==
  IF Len(args) /= 1 THEN Raise("TypeError")
  ELSE IF ~(DOMAIN kwargs \subseteq cls.colnames) THEN Raise("AssertionError")
  ELSE LET cols == IF args[1] = {} THEN cls.colnames ELSE args[1]
           hits == SelectSeq(rows, LAMBDA row : Matches(row, kwargs))
       IN Ret([i \in 1..Len(hits) |-> [c \in cols |-> hits[i][c]]])

\* exists: bool(cls.select(conn, **kwargs)), and a cursor object is true
SqliteTable_exists(cls, rows, kwargs) ==
  LET cursor == SqliteTable_select(cls, rows, <<>>, kwargs) IN
  IF cursor.exc /= "" THEN cursor ELSE Ret(TRUE)

\* insert: [out, rows]; out is cur.lastrowid
SqliteTable_insert(cls, rows, kwargs) ==
  IF ~(DOMAIN kwargs \subseteq cls.colnames)
    THEN [out |-> Raise("AssertionError"), rows |-> rows]
  ELSE IF \/ ~(cls.notnull \subseteq DOMAIN kwargs)
          \/ \E c \in cls.unique \cap DOMAIN kwargs, i \in 1..Len(rows) :
               rows[i][c] = kwargs[c]
    THEN [out |-> Raise("IntegrityError"), rows |-> rows]
  ELSE LET rowid == IF rows = <<>> THEN 1 ELSE rows[Len(rows)].id + 1
           row == [c \in cls.colnames |->
                     IF c \in DOMAIN kwargs THEN kwargs[c] ELSE rowid]
       IN [out |-> Ret(rowid), rows |-> Append(rows, row)]

\* dict(key_cols.items() + val_cols.items())
Merged(key_cols, val_cols) ==
  [c \in DOMAIN key_cols \cup DOMAIN val_cols |->
     IF c \in DOMAIN val_cols THEN val_cols[c] ELSE key_cols[c]]

\* update: [out, rows]
SqliteTable_update(cls, rows, key_cols, val_cols, insert_missing) ==
  IF ~(DOMAIN key_cols \subseteq cls.colnames /\ DOMAIN val_cols \subseteq cls.colnames)
    THEN [out |-> Raise("AssertionError"), rows |-> rows]
  ELSE LET found == IF insert_missing THEN SqliteTable_exists(cls, rows, key_cols)
                    ELSE Ret(TRUE) IN
    IF found.exc /= "" THEN [out |-> found, rows |-> rows]
    ELSE IF insert_missing /\ ~found.val
      THEN SqliteTable_insert(cls, rows, Merged(key_cols, val_cols))
    ELSE [out |-> Ret(None),
          rows |-> [i \in 1..Len(rows) |->
                      IF Matches(rows[i], key_cols)
                        THEN [c \in cls.colnames |->
                                IF c \in DOMAIN val_cols THEN val_cols[c]
                                ELSE rows[i][c]]
                      ELSE rows[i]]]

\* ------------------------------------------------------------------------
\* The DB backend
\* ------------------------------------------------------------------------
\* DB.__init__ after DataStore.__init__ and SqliteTable.connect: [out, rows]
DB_init(rows, uuid, t) ==
  LET found == SqliteTable_exists(DB_table, rows, [key |-> id_key]) IN
  IF found.exc /= "" THEN [out |-> found, rows |-> rows]
  ELSE IF ~found.val
    THEN LET ins == SqliteTable_insert(DB_table, rows,
                      [key |-> id_key, value |-> uuid, update_time |-> t])
         IN [out |-> IF ins.out.exc /= "" THEN ins.out ELSE Ret(None),
             rows |-> ins.rows]
  ELSE [out |-> Ret(None), rows |-> rows]

\* DB.getid: .value is read off the cursor
DB_getid(rows) ==
  LET cursor == SqliteTable_select(DB_table, rows, <<>>, [key |-> id_key]) IN
  IF cursor.exc /= "" THEN cursor ELSE Raise("AttributeError")

\* DB.getdata: a cursor is true, and rows[0] subscripts the cursor
DB_getdata(rows, key) ==
  IF key = id_key THEN Raise(ReservedKey)
  ELSE LET cursor == SqliteTable_select(DB_table, rows, <<>>, [key |-> key]) IN
    IF cursor.exc /= "" THEN cursor ELSE Raise("TypeError")

\* DB.getupdtime: .update_time is read off the cursor
DB_getupdtime(rows, key) ==
  IF key = id_key THEN Raise(ReservedKey)
  ELSE LET cursor == SqliteTable_select(DB_table, rows, <<>>, [key |-> key]) IN
    IF cursor.exc /= "" THEN cursor ELSE Raise("AttributeError")

\* DB.setdata: no return statement, so None is returned
DB_setdata(rows, key, data, t) ==
  IF key = id_key THEN [out |-> Raise(ReservedKey), rows |-> rows]
  ELSE IF key = <<>> THEN [out |-> Raise(InvalidKey), rows |-> rows]
  ELSE LET stripped == IF key[1] = "/" THEN Tail(key) ELSE key
           upd == SqliteTable_update(DB_table, rows, [key |-> stripped],
                                     [value |-> data, update_time |-> t], TRUE)
       IN IF upd.out.exc /= "" THEN upd ELSE [out |-> Ret(None), rows |-> upd.rows]

\* DB.listkeys: prefix is not used; row.key is an attribute read of a
\* sqlite3.Row, which has none
DB_listkeys(rows, prefix) ==
  LET cursor == SqliteTable_select(DB_table, rows, <<>>, <<>>) IN
  IF cursor.exc /= "" THEN cursor
  ELSE IF cursor.val /= <<>> THEN Raise("AttributeError")
  ELSE Ret({})

DB_getobj(cfg, rows, key, crypt_pwd, osok) ==
  getobj_of(cfg, DB_getdata(rows, key), crypt_pwd, osok)

DB_setobj(cfg, rows, key, obj, comp_algo, comp_level, crypt_algo, crypt_pwd, protect_algo, IV, osok, t) ==
  LET buf == setobj_buf(cfg, obj, comp_algo, comp_level, crypt_algo,
                        crypt_pwd, protect_algo, IV, osok) IN
  IF buf.exc /= "" THEN [out |-> buf, rows |-> rows]
  ELSE DB_setdata(rows, key, buf.val, t)

\* ------------------------------------------------------------------------
\* The store run: one backend, constructed on empty storage, then any
\* sequence of calls on it while the clock advances.
\* ------------------------------------------------------------------------
MaxTime == 1

Keys == {<<>>, <<"/">>, id_key, <<"/">> \o id_key, <<"a">>, <<"/", "a">>,
         <<"a", "/", "b">>, <<"b">>}
\* two buffers: the empty one, and the envelope of the object 7
Datas == {<<>>, <<0, 0, 128, 2, 75, 7, 46>>}
Prefixes == {None, Some(<<"a">>), Some(<<"a", "/">>)}
Uuids == {<<49, 102>>, <<50, 101>>}
StoreObjs == {PyInt(7)}
ZeroIV == [i \in 1..IVLen |-> 0]

FS == [dirs |-> dirs, files |-> files]

Init ==
  /\ sto \in {"Dir", "DB"}
  /\ priv \in (IF sto = "Dir" THEN {DefaultPriv} ELSE Privs)
  /\ enc = NoEnc /\ dec = NoDec
  /\ dirs = {} /\ files = {} /\ dirOpen = FALSE
  /\ dbConn = FALSE /\ dbRows = <<>>
  /\ now = 0 /\ last = NoCall /\ procs = <<>>

Tick ==
  /\ now < MaxTime
  /\ now' = now + 1
  /\ UNCHANGED <<codecVars, sto, procs, dirs, files, dirOpen, dbConn, dbRows, last>>

\* a call on the Dir that leaves the file system fs and returns or raises out
DirCall(call, fs) ==
  /\ last' = call
  /\ dirs' = fs.dirs
  /\ files' = fs.files
  /\ UNCHANGED <<codecVars, sto, procs, dirOpen, dbConn, dbRows, now>>

Dir_Init ==
  /\ sto = "Dir"
  /\ \E uuid \in Uuids :
       /\ last' = Call("init", <<>>, <<>>, PyNone, None, Ret(None))
       /\ dirs' = Dir_init(FS, uuid, now).dirs
       /\ files' = Dir_init(FS, uuid, now).files
  /\ dirOpen' = TRUE
  /\ UNCHANGED <<codecVars, sto, procs, dbConn, dbRows, now>>

Dir_GetId ==
  /\ sto = "Dir" /\ dirOpen
  /\ DirCall(Call("getid", <<>>, <<>>, PyNone, None, Dir_getid(FS)), FS)

Dir_GetData ==
  /\ sto = "Dir" /\ dirOpen
  /\ \E key \in Keys :
       DirCall(Call("getdata", key, <<>>, PyNone, None, Dir_getdata(FS, key)), FS)

Dir_GetUpdTime ==
  /\ sto = "Dir" /\ dirOpen
  /\ \E key \in Keys :
       DirCall(Call("getupdtime", key, <<>>, PyNone, None, Dir_getupdtime(FS, key)), FS)

Dir_SetData ==
  /\ sto = "Dir" /\ dirOpen
  /\ \E key \in Keys, data \in Datas :
       LET r == Dir_setdata(FS, key, data, now) IN
       DirCall(Call("setdata", key, data, PyNone, None, r.out), r.fs)

Dir_ListKeys ==
  /\ sto = "Dir" /\ dirOpen
  /\ \E prefix \in Prefixes :
       DirCall(Call("listkeys", <<>>, <<>>, PyNone, prefix, Dir_listkeys(FS, prefix)), FS)

Dir_GetObj ==
  /\ sto = "Dir" /\ dirOpen
  /\ \E key \in Keys :
       DirCall(Call("getobj", key, <<>>, PyNone, None,
                    Dir_getobj(FS, key, None, TRUE)), FS)

Dir_SetObj ==
  /\ sto = "Dir" /\ dirOpen
  /\ \E key \in Keys, obj \in StoreObjs :
       LET r == Dir_setobj(FS, key, obj, None, None, None, None, None,
                           ZeroIV, TRUE, now) IN
       DirCall(Call("setobj", key, <<>>, obj, None, r.out), r.fs)

\* a call on the DB that leaves the rows r.rows and returns or raises r.out
DBCall(call, rows) ==
  /\ last' = call
  /\ dbRows' = rows
  /\ UNCHANGED <<codecVars, sto, procs, dirs, files, dirOpen, dbConn, now>>

\* DB(db_path, **kwargs): DataStore.__init__ has set priv, connect creates
\* the table, and the rest of DB.__init__ follows.  The calls below are
\* made on the object that holds this connection.
DB_Init ==
  /\ sto = "DB"
  /\ \E uuid \in Uuids :
       LET r == DB_init(dbRows, uuid, now) IN
       /\ last' = Call("init", <<>>, <<>>, PyNone, None, r.out)
       /\ dbRows' = r.rows
  /\ dbConn' = TRUE
  /\ UNCHANGED <<codecVars, sto, procs, dirs, files, dirOpen, now>>

DB_GetId ==
  /\ sto = "DB" /\ dbConn
  /\ DBCall(Call("getid", <<>>, <<>>, PyNone, None, DB_getid(dbRows)), dbRows)

DB_GetData ==
  /\ sto = "DB" /\ dbConn
  /\ \E key \in Keys :
       DBCall(Call("getdata", key, <<>>, PyNone, None, DB_getdata(dbRows, key)), dbRows)

DB_GetUpdTime ==
  /\ sto = "DB" /\ dbConn
  /\ \E key \in Keys :
       DBCall(Call("getupdtime", key, <<>>, PyNone, None, DB_getupdtime(dbRows, key)),
              dbRows)

DB_SetData ==
  /\ sto = "DB" /\ dbConn
  /\ \E key \in Keys, data \in Datas :
       LET r == DB_setdata(dbRows, key, data, now) IN
       DBCall(Call("setdata", key, data, PyNone, None, r.out), r.rows)

DB_ListKeys ==
  /\ sto = "DB" /\ dbConn
  /\ \E prefix \in Prefixes :
       DBCall(Call("listkeys", <<>>, <<>>, PyNone, prefix, DB_listkeys(dbRows, prefix)),
              dbRows)

DB_GetObj ==
  /\ sto = "DB" /\ dbConn
  /\ \E key \in Keys :
       DBCall(Call("getobj", key, <<>>, PyNone, None,
                   DB_getobj(priv, dbRows, key, None, TRUE)), dbRows)

DB_SetObj ==
  /\ sto = "DB" /\ dbConn
  /\ \E key \in Keys, obj \in StoreObjs :
       LET r == DB_setobj(priv, dbRows, key, obj, None, None, None, None, None,
                          ZeroIV, TRUE, now) IN
       DBCall(Call("setobj", key, <<>>, obj, None, r.out), r.rows)

Next ==
  \/ Tick
  \/ Dir_Init \/ Dir_GetId \/ Dir_GetData \/ Dir_GetUpdTime \/ Dir_SetData
  \/ Dir_ListKeys \/ Dir_GetObj \/ Dir_SetObj
  \/ DB_Init \/ DB_GetId \/ DB_GetData \/ DB_GetUpdTime \/ DB_SetData
  \/ DB_ListKeys \/ DB_GetObj \/ DB_SetObj

Spec == Init /\ [][Next]_vars

\* ------------------------------------------------------------------------
\* Claims on the backends
\* ------------------------------------------------------------------------
Open == (sto = "Dir" /\ dirOpen) \/ (sto = "DB" /\ dbConn)

\* what a call would return, or raise, in the current state
GetId == IF sto = "Dir" THEN Dir_getid(FS) ELSE DB_getid(dbRows)
GetData(key) == IF sto = "Dir" THEN Dir_getdata(FS, key) ELSE DB_getdata(dbRows, key)
GetUpdTime(key) ==
  IF sto = "Dir" THEN Dir_getupdtime(FS, key) ELSE DB_getupdtime(dbRows, key)

\* the storage a setdata would leave
AfterSetData(key, data) ==
  IF sto = "Dir" THEN [fs |-> Dir_setdata(FS, key, data, now).fs, rows |-> dbRows]
  ELSE [fs |-> FS, rows |-> DB_setdata(dbRows, key, data, now).rows]

\* the records of the users: every file but the id file, every row but the
\* id row, as [key, time]
Stored ==
  IF sto = "Dir"
    THEN {[key |-> join("/", f.path), time |-> f.mtime] :
            f \in {g \in files : g.path /= <<id_key>>}}
  ELSE {[key |-> dbRows[i].key, time |-> dbRows[i].update_time] :
          i \in {j \in 1..Len(dbRows) : dbRows[j].key /= id_key}}

Normalized(key) == IF key /= <<>> /\ key[1] = "/" THEN Tail(key) ELSE key

DataOps == {"getdata", "getupdtime", "setdata", "getobj", "setobj"}

\* C2: read-your-write.  Once setdata(k, d) has completed, getdata(k)
\* returns a pair whose data is exactly d.
C2_ReadYourWrite ==
  (last.op = "setdata" /\ last.out.exc = "")
  => /\ GetData(last.key).exc = ""
     /\ Len(GetData(last.key).val) = 2
     /\ GetData(last.key).val[1] = Some(last.data)

\* C3: the identity is never overwritten.  Once the store is constructed, no
\* call changes what getid() returns.
C3_IdentityStable == [][Open => GetId' = GetId]_vars

\* C4: reserved key rejection.  A getdata, getupdtime, setdata, getobj or
\* setobj with the key "id" raises (the reserved-key exception for the four
\* that do nothing before the key test) and leaves files, directories, rows
\* and the identity as they were.
C4_ReservedKeyRejected ==
  [][(last'.op \in DataOps /\ last'.key = id_key)
     => /\ last'.out.exc /= ""
        /\ (last'.op /= "setobj" => last'.out.exc = ReservedKey)
        /\ dirs' = dirs /\ files' = files /\ dbRows' = dbRows
        /\ GetId' = GetId]_vars

\* C4 witness: setdata("id", d) was refused on a Dir that holds a user record
C4_Witness ==
  /\ sto = "Dir"
  /\ last.op = "setdata" /\ last.key = id_key /\ last.out.exc = ReservedKey
  /\ Stored /= {}

\* C5: listing exclusion.  On either backend listkeys() returns a mapping,
\* and "id" is not one of its keys.
C5_ListingExcludesId ==
  last.op = "listkeys"
  => /\ last.out.exc = ""
     /\ \A e \in last.out.val : e.key /= id_key

\* C6: key normalization.  From any state of a constructed store, and for
\* every key k that does not start with "/", setdata("/" + k, v) and
\* setdata(k, v) leave the same storage.
C6_KeyNormalization ==
  Open => \A k \in Keys, v \in Datas :
            (k = <<>> \/ k[1] /= "/")
            => AfterSetData(<<"/">> \o k, v) = AfterSetData(k, v)

\* C7: setdata returns the new timestamp.  What a completed setdata or setobj
\* returned is not None and is what getupdtime of the same key returns next.
C7_SetdataReturnsTime ==
  (last.op \in {"setdata", "setobj"} /\ last.out.exc = "")
  => /\ last.out.val /= None
     /\ GetUpdTime(last.key) = Ret(last.out.val)

\* C8: an absent key is not an error.  getdata and getobj of a non-reserved,
\* non-empty key without record return; getobj returns (None, None).
C8_AbsentKeyNoError ==
  (/\ last.op \in {"getdata", "getobj"}
   /\ last.key \notin {<<>>, id_key}
   /\ \A e \in Stored : e.key /= Normalized(last.key))
  => /\ last.out.exc = ""
     /\ (last.op = "getobj" => last.out.val = <<PyNone, None>>)

\* C9: prefix listing.  listkeys(prefix) returns exactly the stored user
\* keys that start with prefix, each with its update time.
C9_PrefixListing ==
  last.op = "listkeys"
  => last.out = Ret({e \in Stored :
                       last.prefix = None \/ startswith(e.key, Val(last.prefix))})

\* C10: timestamp monotonicity.  When a completed setdata is followed by a
\* completed setdata of the same key, the second returns a time that is not
\* less, and getupdtime of that key then returns the second time.
C10_TimestampMonotonic ==
  [][(/\ last.op = "setdata" /\ last.out.exc = "" /\ last.out.val /= None
      /\ last'.op = "setdata" /\ last'.out.exc = "" /\ last'.out.val /= None
      /\ last'.key = last.key
      /\ now' = now)
     => /\ Val(last'.out.val) >= Val(last.out.val)
        /\ GetUpdTime(last.key)' = Ret(last'.out.val)]_vars

\* C19: the identity is generated once.  Every construction of a backend
\* completes and getid() returns right after it; a construction on storage
\* that already holds an identity leaves getid() as it was.
C19_IdentityGeneratedOnce ==
  [][last'.op = "init"
     => /\ last'.out.exc = ""
        /\ GetId'.exc = ""
        /\ (Open => GetId' = GetId)]_vars

C24_ReadsNormalizeKeys ==
  (/\ last.op = "setdata" /\ last.out.exc = ""
   /\ last.key /= <<>> /\ last.key[1] = "/"
   /\ Tail(last.key) \notin {<<>>, id_key} /\ Tail(last.key)[1] /= "/")
  => /\ GetData(last.key).exc = ""
     /\ Len(GetData(last.key).val) = 2
     /\ GetData(last.key).val[1] = Some(last.data)
     /\ GetData(last.key) = GetData(Tail(last.key))
     /\ GetUpdTime(last.key).exc = ""
     /\ GetUpdTime(last.key) = GetUpdTime(Tail(last.key))

\* the names of a key between its separators
Segments(key) == split(key, "/")

\* a key that is a proper path prefix of another ("a" of "a/b")
PathPrefix(k1, k2) ==
  /\ Len(Segments(k1)) < Len(Segments(k2))
  /\ SubSeq(Segments(k2), 1, Len(Segments(k1))) = Segments(k1)

\* keys that are neither empty nor reserved and need no normalization
PlainKeys == {k \in Keys : k \notin {<<>>, id_key} /\ k[1] /= "/"}

\* what listkeys() would return in the current state
ListKeys == IF sto = "Dir" THEN Dir_listkeys(FS, None) ELSE DB_listkeys(dbRows, None)

\* listkeys() returns an entry for the key
Listed(k) == ListKeys.exc = "" /\ \E e \in ListKeys.val : e.key = k

\* C25: hierarchical keys coexist.  When a completed setdata of a plain key
\* is followed by a setdata of a plain key that is a path prefix of it, or of
\* which it is a path prefix, the second completes too, listkeys() then holds
\* both keys and getdata returns the buffer of each.
C25_HierarchicalKeys ==
  [][\A k1 \in PlainKeys, k2 \in PlainKeys, d1 \in Datas, d2 \in Datas :
       (/\ last.op = "setdata" /\ last.out.exc = ""
        /\ last.key = k1 /\ last.data = d1
        /\ last'.op = "setdata" /\ last'.key = k2 /\ last'.data = d2
        /\ (PathPrefix(k1, k2) \/ PathPrefix(k2, k1)))
       => /\ last'.out.exc = ""
          /\ Listed(k1)'
          /\ Listed(k2)'
          /\ GetData(k1)' = Ret(<<Some(d1), GetUpdTime(k1)'.val>>)
          /\ GetData(k2)' = Ret(<<Some(d2), GetUpdTime(k2)'.val>>)]_vars

\* the records of the users with their data, as [key, data, time]
Records ==
  IF sto = "Dir"
    THEN {[key |-> join("/", f.path), data |-> f.data, time |-> f.mtime] :
            f \in {g \in files : g.path /= <<id_key>>}}
  ELSE {[key |-> dbRows[i].key, data |-> dbRows[i].value,
         time |-> dbRows[i].update_time] :
          i \in {j \in 1..Len(dbRows) : dbRows[j].key /= id_key}}

\* the records other than that of key n
RecordsBut(n) == {e \in Records : e.key /= n}

\* the entries of listkeys() other than that of key n
ListedBut(n) == IF ListKeys.exc = "" THEN {e \in ListKeys.val : e.key /= n} ELSE {}

\* C26: frame of a write.  A completed setdata(k, d) leaves every record
\* other than that of the normalized k as it was (none changed, none added,
\* none removed), and with it what getdata returns for every other key and
\* what listkeys returns for it; a setdata refused for a reserved or empty
\* key leaves every record as it was.
C26_WriteFrame ==
  [][last'.op = "setdata"
     => /\ last'.out.exc = ""
           => /\ \A n \in Keys :
                   n = Normalized(last'.key)
                   => /\ RecordsBut(n)' = RecordsBut(n)
                      /\ ListedBut(n)' = ListedBut(n)
              /\ \A k \in Keys :
                   Normalized(k) /= Normalized(last'.key)
                   => GetData(k)' = GetData(k)
        /\ last'.key \in {<<>>, id_key}
           => /\ last'.out.exc /= ""
              /\ Records' = Records
              /\ GetId' = GetId]_vars

\* C26 witness: setdata("a/b", d) completed on a Dir that held a record
\* under "b"
C26_Witness ==
  /\ sto = "Dir"
  /\ last.op = "setdata" /\ last.key = <<"a", "/", "b">> /\ last.out.exc = ""
  /\ \E e \in Records : e.key = <<"b">> /\ e.data /= last.data
  /\ \E e \in Records : e.key = <<"a", "/", "b">> /\ e.data = last.data

\* ------------------------------------------------------------------------
\* Attribute-style access (DataStore.__getattr__ / __setattr__) and calls
\* with per-call encoding parameters.  An attribute name is a key of one
\* token.
\* ------------------------------------------------------------------------
\* the names held in self._priv of a store of class cls
PrivNames(cls) ==
  {<<"_comp_algo">>, <<"_comp_level">>, <<"_crypt_algo">>, <<"_crypt_pwd">>,
   <<"_protect_algo">>}
  \cup (IF cls = "Dir" THEN {<<"_path">>} ELSE {<<"_db_path">>, <<"_conn">>})

\* self._priv[name]
PrivValue(cfg, name) ==
  CASE name = <<"_comp_algo">> -> PyInt(cfg.comp_algo)
    [] name = <<"_comp_level">> -> PyInt(cfg.comp_level)
    [] name = <<"_crypt_algo">> -> PyInt(cfg.crypt_algo)
    [] name = <<"_crypt_pwd">> ->
         (IF cfg.crypt_pwd = None THEN PyNone ELSE PyStr(Val(cfg.crypt_pwd)))
    [] name = <<"_protect_algo">> -> PyInt(cfg.protect_algo)
    [] OTHER -> [t |-> "native", v |-> name]

\* __getattr__(name), given what self.getobj(name) returns or raises
getattr_of(cls, cfg, name, got) ==
  IF name \in PrivNames(cls) THEN Ret(PrivValue(cfg, name))
  ELSE IF got.exc /= "" THEN got
  ELSE IF got.val[1] /= PyNone THEN Ret(got.val[1])
  ELSE Raise("AttributeError")

\* an attribute write that lands in self._priv when the name is one of its
\* names
setattr_priv_assign(cfg, name, value) ==
  IF name = <<"_comp_algo">> /\ value.t = "int"
    THEN [cfg EXCEPT !.comp_algo = value.v[1]]
  ELSE cfg

\* self._priv after __setattr__(name, value): the method only calls setobj
setattr_priv(cfg, name, value) == cfg

AttrNames == {<<"a">>, <<"_comp_algo">>, id_key}
AttrObjs == {PyInt(7), PyNone}
AttrPwds == {None, Some(<<112>>)}

\* per-call encoding parameters: none, compression, encryption and protection
NoOverride ==
  [comp_algo |-> None, comp_level |-> None, crypt_algo |-> None,
   crypt_pwd |-> None, protect_algo |-> None]
Overrides ==
  { NoOverride,
    [NoOverride EXCEPT !.comp_algo = Some(zlib), !.comp_level = Some(MaxCompLevel)],
    [NoOverride EXCEPT !.crypt_algo = Some(AES), !.crypt_pwd = Some(<<112>>),
                       !.protect_algo = Some(DPAPI)] }

\* setobj and getobj on the backend of the run: [out, fs, rows]
StoreSetobj(key, obj, ov) ==
  IF sto = "Dir"
    THEN LET r == Dir_setobj(FS, key, obj, ov.comp_algo, ov.comp_level,
                             ov.crypt_algo, ov.crypt_pwd, ov.protect_algo,
                             ZeroIV, TRUE, now)
         IN [out |-> r.out, fs |-> r.fs, rows |-> dbRows]
  ELSE LET r == DB_setobj(priv, dbRows, key, obj, ov.comp_algo, ov.comp_level,
                          ov.crypt_algo, ov.crypt_pwd, ov.protect_algo,
                          ZeroIV, TRUE, now)
       IN [out |-> r.out, fs |-> FS, rows |-> r.rows]

StoreGetobj(key, crypt_pwd) ==
  IF sto = "Dir" THEN Dir_getobj(FS, key, crypt_pwd, TRUE)
  ELSE DB_getobj(priv, dbRows, key, crypt_pwd, TRUE)

\* store.name = value
Attr_SetAttr ==
  /\ Open
  /\ \E name \in AttrNames, value \in AttrObjs :
       LET r == StoreSetobj(name, value, NoOverride) IN
       /\ last' = Call("setattr", name, <<>>, value, None,
                       IF r.out.exc /= "" THEN r.out ELSE Ret(None))
       /\ dirs' = r.fs.dirs /\ files' = r.fs.files /\ dbRows' = r.rows
       /\ priv' = setattr_priv(priv, name, value)
  /\ UNCHANGED <<enc, dec, sto, procs, dirOpen, dbConn, now>>

\* store.name
Attr_GetAttr ==
  /\ Open
  /\ \E name \in AttrNames :
       last' = Call("getattr", name, <<>>, PyNone, None,
                    getattr_of(sto, priv, name, StoreGetobj(name, None)))
  /\ UNCHANGED <<codecVars, sto, procs, dirs, files, dirOpen, dbConn, dbRows, now>>

\* store.setobj(key, obj, comp_algo=..., ...)
Attr_SetObj ==
  /\ Open
  /\ \E key \in AttrNames, obj \in AttrObjs, ov \in Overrides :
       LET r == StoreSetobj(key, obj, ov) IN
       /\ last' = Call("setobj", key, <<>>, obj, None, r.out)
       /\ dirs' = r.fs.dirs /\ files' = r.fs.files /\ dbRows' = r.rows
  /\ UNCHANGED <<codecVars, sto, procs, dirOpen, dbConn, now>>

\* store.getobj(key, crypt_pwd=...)
Attr_GetObj ==
  /\ Open
  /\ \E key \in AttrNames, crypt_pwd \in AttrPwds :
       last' = Call("getobj", key, <<>>, PyNone, None, StoreGetobj(key, crypt_pwd))
  /\ UNCHANGED <<codecVars, sto, procs, dirs, files, dirOpen, dbConn, dbRows, now>>

NextAttr ==
  \/ Tick
  \/ Dir_Init \/ DB_Init
  \/ Attr_SetAttr \/ Attr_GetAttr \/ Attr_SetObj \/ Attr_GetObj

SpecAttr == Init /\ [][NextAttr]_vars

\* C17: per-call overrides never mutate the defaults.  No setobj with
\* per-call parameters, no getobj with a per-call password and no attribute
\* write, whatever the name, changes the default encoding parameters of the
\* store.
C17_DefaultsImmutable == [][priv' = priv]_vars

\* C17 witness: store._comp_algo = 7 completed and left a record under the
\* key _comp_algo, the default being what it was
C17_Witness ==
  /\ last.op = "setattr" /\ last.key = <<"_comp_algo">> /\ last.obj = PyInt(7)
  /\ last.out.exc = ""
  /\ \E e \in Stored : e.key = <<"_comp_algo">>
  /\ priv.comp_algo = uncompressed

\* what reading the attribute would give in the current state
GetAttr(name) == getattr_of(sto, priv, name, StoreGetobj(name, None))

\* C18: attribute-style access.  Reading an undeclared attribute right after
\* writing it gives the value written, None included; and reading raises the
\* missing-key error (AttributeError) exactly when no record is stored under
\* the name.
C18_AttributeAccess ==
  /\ (/\ last.op = "setattr" /\ last.out.exc = ""
      /\ last.key \notin PrivNames(sto))
     => GetAttr(last.key) = Ret(last.obj)
  /\ Open
     => \A name \in AttrNames \ (PrivNames(sto) \cup {id_key}) :
          (GetAttr(name).exc = "AttributeError")
          <=> (\A e \in Stored : e.key /= name)

\* ------------------------------------------------------------------------
\* The table run (datastore_test.py): a table class with the columns id,
\* name and value, connected on an empty database, then any sequence of
\* insert and select calls.  The values are of the declared type of their
\* column: a text for name, an integer for value.
\* ------------------------------------------------------------------------
MaxRows == 3

TestTable == [colnames |-> {"id", "name", "value"},
              notnull |-> {"name", "value"},
              unique |-> {}]

TestNames == {"abc", "def"}
TestValues == {3, 4}

\* keyword arguments of insert: a whole row, or a row without its value
InsertArgs ==
  {[name |-> n, value |-> v] : n \in TestNames, v \in TestValues}
  \cup {[name |-> n] : n \in TestNames}

\* cols of select: '' (every column), 'name,value', 'value'
SelectCols == {{}, {"name", "value"}, {"value"}}

\* filters of select: none, on one column, on both
SelectFilters ==
  {<<>>}
  \cup {[name |-> n] : n \in TestNames}
  \cup {[value |-> v] : v \in TestValues}
  \cup {[name |-> n, value |-> v] : n \in TestNames, v \in TestValues}

\* a call on the table: out.val is the sequence of rows of a select (empty
\* for the other calls), rowid the cur.lastrowid an insert returns (else 0)
TableCall(op, cols, kwargs, out, rowid) ==
  [op |-> op, cols |-> cols, kwargs |-> kwargs, out |-> out, rowid |-> rowid]

\* SqliteTable.connect(':memory:', TestTable)
TableInit ==
  /\ sto = "table"
  /\ priv = DefaultPriv /\ enc = NoEnc /\ dec = NoDec
  /\ dirs = {} /\ files = {} /\ dirOpen = FALSE
  /\ dbConn = TRUE /\ dbRows = <<>>
  /\ now = 0 /\ procs = <<>>
  /\ last = TableCall("connect", {}, <<>>, Ret(<<>>), 0)

\* TestTable.insert(conn, **kwargs)
Table_Insert ==
  /\ sto = "table" /\ Len(dbRows) < MaxRows
  /\ \E kwargs \in InsertArgs :
       LET r == SqliteTable_insert(TestTable, dbRows, kwargs) IN
       /\ dbRows' = r.rows
       /\ last' = TableCall("insert", {}, kwargs,
                            IF r.out.exc /= "" THEN r.out ELSE Ret(<<>>),
                            IF r.out.exc /= "" THEN 0 ELSE r.out.val)
  /\ UNCHANGED <<codecVars, sto, procs, dirs, files, dirOpen, dbConn, now>>

\* TestTable.select(conn, cols, **kwargs)
Table_Select ==
  /\ sto = "table"
  /\ \E cols \in SelectCols, kwargs \in SelectFilters :
       last' = TableCall("select", cols, kwargs,
                         SqliteTable_select(TestTable, dbRows, <<cols>>, kwargs), 0)
  /\ UNCHANGED <<codecVars, sto, procs, dirs, files, dirOpen, dbConn, dbRows, now>>

NextTable == Table_Insert \/ Table_Select

SpecTable == TableInit /\ [][NextTable]_vars

\* the indexes of the rows of the table that equal every filter value
Hits(kwargs) ==
  {i \in 1..Len(dbRows) : \A c \in DOMAIN kwargs : dbRows[i][c] = kwargs[c]}

\* C21: filtered select.  A completed insert appends one row that holds the
\* values given and returns its id; and a select returns one row per row of the table that
\* equals every filter value, each projected on the columns asked for (all of
\* them for an empty cols), and no other row.
C21_FilteredSelect ==
  [][/\ (last'.op = "insert" /\ last'.out.exc = "")
        => /\ Len(dbRows') = Len(dbRows) + 1
           /\ last'.rowid = dbRows'[Len(dbRows')].id
           /\ SubSeq(dbRows', 1, Len(dbRows)) = dbRows
           /\ \A c \in DOMAIN last'.kwargs :
                dbRows'[Len(dbRows')][c] = last'.kwargs[c]
     /\ last'.op = "select"
        => LET cols == IF last'.cols = {} THEN {"id", "name", "value"}
                       ELSE last'.cols
               got == last'.out.val IN
           /\ last'.out.exc = ""
           /\ Len(got) = Cardinality(Hits(last'.kwargs))
           /\ \A i \in 1..Len(got) :
                /\ DOMAIN got[i] = cols
                /\ \E j \in Hits(last'.kwargs) :
                     \A c \in cols : got[i][c] = dbRows[j][c]
           /\ \A j \in Hits(last'.kwargs) :
                \E i \in 1..Len(got) : \A c \in cols : got[i][c] = dbRows[j][c]]_vars

\* C21 witness: of three rows, a select filtered on name and value returned
\* one
C21_Witness ==
  /\ sto = "table" /\ Len(dbRows) = 3
  /\ last.op = "select" /\ DOMAIN last.kwargs = {"name", "value"}
  /\ last.out.exc = "" /\ Len(last.out.val) = 1

\* ------------------------------------------------------------------------
\* The writers run: two callers inside setdata on one store at once.  The
\* code takes no lock, so each call to the file system or to the database
\* is a step of its own and the steps of the callers interleave.
\* ------------------------------------------------------------------------
Writers == {1, 2}
WriterKeys ==
  {<<>>, id_key, <<"a">>, <<"/", "a">>, <<"i", "/", "1">>, <<"i", "/", "2">>}
WriterData == [w \in Writers |-> IF w = 1 THEN <<>> ELSE <<0, 0, 128, 2, 75, 7, 46>>]

\* a caller of setdata(key, data): where it stands and its local variables
Proc(pc, key, data, data_path, tokens, update_time, out) ==
  [pc |-> pc, key |-> key, data |-> data, data_path |-> data_path,
   tokens |-> tokens, update_time |-> update_time, out |-> out]

\* a call that has returned or raised
Done(p, out) == [p EXCEPT !.pc = "done", !.out = out]

WritersInit ==
  /\ sto \in {"Dir", "DB"}
  /\ priv = DefaultPriv /\ enc = NoEnc /\ dec = NoDec
  /\ \E uuid \in Uuids :
       LET fs == Dir_init([dirs |-> {}, files |-> {}], uuid, 0) IN
       /\ dirs = (IF sto = "Dir" THEN fs.dirs ELSE {})
       /\ files = (IF sto = "Dir" THEN fs.files ELSE {})
  /\ dirOpen = (sto = "Dir")
  /\ dbConn = (sto = "DB") /\ dbRows = <<>>
  /\ now = 0 /\ last = NoCall
  /\ \E k1 \in WriterKeys, k2 \in WriterKeys :
       procs = [w \in Writers |->
                  Proc("call", IF w = 1 THEN k1 ELSE k2, WriterData[w], <<>>, <<>>,
                       0, Ret(None))]

\* the step of writer w that leaves it as p and the file system as fs
DirW(w, p, fs) ==
  /\ procs' = [procs EXCEPT ![w] = p]
  /\ dirs' = fs.dirs /\ files' = fs.files
  /\ UNCHANGED <<codecVars, sto, dirOpen, dbConn, dbRows, now, last>>

\* where the loop over the directory tokens goes on
Dir_setdata_loop(p, tokens) ==
  [p EXCEPT !.tokens = tokens, !.pc = IF Len(tokens) > 1 THEN "isdir" ELSE "open"]

\* Dir.setdata, the validation and the tokens of the key
DirW_Call(w) ==
  /\ sto = "Dir" /\ procs[w].pc = "call"
  /\ LET p == procs[w] IN
     IF p.key = id_key THEN DirW(w, Done(p, Raise(ReservedKey)), FS)
     ELSE IF p.key = <<>> THEN DirW(w, Done(p, Raise(InvalidKey)), FS)
     ELSE LET stripped == IF p.key[1] = "/" THEN Tail(p.key) ELSE p.key IN
       DirW(w, Dir_setdata_loop([p EXCEPT !.key = stripped], split(stripped, "/")), FS)

\* the loop: data_path = os.path.join(data_path, token); os.path.isdir
DirW_IsDir(w) ==
  /\ sto = "Dir" /\ procs[w].pc = "isdir"
  /\ LET p == procs[w]
         q == [p EXCEPT !.data_path = os_path_join(p.data_path, p.tokens[1])] IN
     IF isdir(FS, q.data_path) THEN DirW(w, Dir_setdata_loop(q, Tail(p.tokens)), FS)
     ELSE DirW(w, [q EXCEPT !.pc = "mkdir"], FS)

\* the loop: os.mkdir(data_path)
DirW_MkDir(w) ==
  /\ sto = "Dir" /\ procs[w].pc = "mkdir"
  /\ LET p == procs[w]
         made == os_mkdir(FS, p.data_path, now) IN
     IF made.exc /= "" THEN DirW(w, Done(p, Raise(made.exc)), FS)
     ELSE DirW(w, Dir_setdata_loop(p, Tail(p.tokens)), made.fs)

\* with open(os.path.join(data_path, file_part), 'wb') as f: f.write(data)
DirW_Open(w) ==
  /\ sto = "Dir" /\ procs[w].pc = "open"
  /\ LET p == procs[w]
         q == [p EXCEPT !.data_path = os_path_join(p.data_path, p.tokens[1])]
         written == os_write(FS, q.data_path, p.data, now) IN
     IF written.exc /= "" THEN DirW(w, Done(q, Raise(written.exc)), FS)
     ELSE DirW(w, [q EXCEPT !.pc = "getmtime"], written.fs)

\* return datetime.datetime.fromtimestamp(os.path.getmtime(data_path))
DirW_Return(w) ==
  /\ sto = "Dir" /\ procs[w].pc = "getmtime"
  /\ LET p == procs[w] IN
     IF isfile(FS, p.data_path)
       THEN DirW(w, Done(p, Ret(Some(TheFile(FS, p.data_path).mtime))), FS)
     ELSE DirW(w, Done(p, Raise("OSError")), FS)

\* one step of DB.setdata: the validation, and then SqliteTable.update with
\* insert_missing, whose exists, insert and UPDATE are statements of their
\* own, each in its own transaction: [proc, rows]
DB_setdata_step(p, rows, t) ==
  IF p.pc = "call"
    THEN IF p.key = id_key THEN [proc |-> Done(p, Raise(ReservedKey)), rows |-> rows]
         ELSE IF p.key = <<>> THEN [proc |-> Done(p, Raise(InvalidKey)), rows |-> rows]
         ELSE [proc |-> [p EXCEPT !.key = IF p.key[1] = "/" THEN Tail(p.key) ELSE p.key,
                                  !.update_time = t, !.pc = "exists"],
               rows |-> rows]
  ELSE IF p.pc = "exists"
    THEN LET found == SqliteTable_exists(DB_table, rows, [key |-> p.key]) IN
         IF found.exc /= "" THEN [proc |-> Done(p, Raise(found.exc)), rows |-> rows]
         ELSE [proc |-> [p EXCEPT !.pc = IF found.val THEN "update" ELSE "insert"],
               rows |-> rows]
  ELSE IF p.pc = "insert"
    THEN LET ins == SqliteTable_insert(DB_table, rows,
                      Merged([key |-> p.key],
                             [value |-> p.data, update_time |-> p.update_time])) IN
         [proc |-> Done(p, IF ins.out.exc /= "" THEN Raise(ins.out.exc) ELSE Ret(None)),
          rows |-> ins.rows]
  ELSE LET upd == SqliteTable_update(DB_table, rows, [key |-> p.key],
                    [value |-> p.data, update_time |-> p.update_time], FALSE) IN
       [proc |-> Done(p, IF upd.out.exc /= "" THEN Raise(upd.out.exc) ELSE Ret(None)),
        rows |-> upd.rows]

\* a step of writer w inside DB.setdata
DBW_Step(w) ==
  /\ sto = "DB" /\ procs[w].pc /= "done"
  /\ LET r == DB_setdata_step(procs[w], dbRows, now) IN
     /\ procs' = [procs EXCEPT ![w] = r.proc]
     /\ dbRows' = r.rows
  /\ UNCHANGED <<codecVars, sto, dirs, files, dirOpen, dbConn, now, last>>

NextWriters ==
  \/ Tick
  \/ \E w \in Writers :
       \/ DirW_Call(w)
       \/ DirW_IsDir(w)
       \/ DirW_MkDir(w)
       \/ DirW_Open(w)
       \/ DirW_Return(w)
       \/ DBW_Step(w)

SpecWriters == WritersInit /\ [][NextWriters]_vars

\* both writers have returned or raised
AllDone == \A w \in Writers : procs[w].pc = "done"

\* C22: last write wins on DB.  When two writers have run setdata
\* concurrently on the same valid key, both calls have completed without
\* error, exactly one row holds the key and its value is the buffer of one
\* of the two writers.
C22_LastWriteWins ==
  (/\ sto = "DB" /\ AllDone
   /\ procs[1].key = procs[2].key /\ procs[1].key \notin {<<>>, id_key})
  => /\ \A w \in Writers : procs[w].out.exc = ""
     /\ Cardinality({i \in 1..Len(dbRows) : dbRows[i].key = procs[1].key}) = 1
     /\ \A i \in 1..Len(dbRows) :
          dbRows[i].key = procs[1].key
          => \E w \in Writers : dbRows[i].value = procs[w].data

\* C27: concurrent writes to different keys on Dir.  When two writers have
\* run setdata concurrently on two different keys under one directory that
\* did not exist, both calls have completed without error and both files
\* hold the buffer of their writer.
C27_ConcurrentDirWrites ==
  (/\ sto = "Dir" /\ AllDone
   /\ procs[1].key /= procs[2].key
   /\ \A w \in Writers : procs[w].key \notin {<<>>, id_key}
   /\ \A w \in Writers : Len(Segments(procs[w].key)) = 2
   /\ Segments(procs[1].key)[1] = Segments(procs[2].key)[1])
  => \A w \in Writers :
       /\ procs[w].out.exc = ""
       /\ \E f \in files : /\ f.path = Segments(procs[w].key)
                           /\ f.data = procs[w].data

====
